---- MODULE Spec2Model ----
(***************************************************************************)
(* SpeechManager of homeassistant/components/tts/__init__.py: the memory   *)
(* cache, the disk index, the synthesis tasks and the coroutines that use  *)
(* them, as they interleave on one asyncio event loop with file I/O done   *)
(* in executor threads.  One action is one run of a coroutine or callback  *)
(* between two suspension points.  A task made by hass.async_create_task   *)
(* first runs at a later iteration of the loop; the callbacks of a done    *)
(* task are queued when it finishes and run back to back.                  *)
(***************************************************************************)
EXTENDS Integers, Sequences, FiniteSets, TLC

\* ------------------------------------------------------------- bounds
MaxCalls == 2
MaxTasks == 2
MaxClears == 1

Keys == {"k1"}
\* extensions the backend can return; the expected extension of a key whose
\* options hold audio_output is ExpectedExt
Exts == {"mp3", "wav"}
ExpectedExt == "mp3"
\* audio the backend can return
Bytes == {"a", "b"}
NoFile == <<"-", "-">>

\* ------------------------------------------------------------- state
VARIABLES
    mem_cache,   \* self.mem_cache: key -> TTSCache
    file_cache,  \* self.file_cache: key -> filename
    disk,        \* the files of cache_dir: filename -> bytes
    hasExt,      \* key -> whether its options hold audio_output (the options are
                 \* hashed into the key, so all requests of a key agree on it)
    backend,     \* the (extension, data) results the engine can return
    pure,        \* argument and result of the function a pure-function
                 \* specification applies ("-" where none is applied)
    tasks,       \* the get_tts_data tasks (audio_task), in creation order
    calls,       \* the calls of async_get_tts_audio / async_get_url_path / async_read_tts
    timers,      \* the async_call_later handles not yet fired
    clear        \* the async_clear_cache coroutine

\* what no operation of the manager changes
static == <<hasExt, backend, pure>>

vars == <<mem_cache, file_cache, disk, static, tasks, calls, timers, clear>>

\* ------------------------------------------------------------- dict helpers
EmptyMap == [x \in {} |-> 0]
Remove(m, k) == [x \in (DOMAIN m) \ {k} |-> m[x]]
Put(m, k, v) == [x \in (DOMAIN m) \cup {k} |-> IF x = k THEN v ELSE m[x]]

\* ------------------------------------------------------------- text
\* a str is the sequence of its characters; the characters used, in code point order
Alphabet ==
    <<"-", ".", "0", "1", "2", "3", "4", "5", "6", "7", "8", "9",
      "E", "M", "N", "P", "S", "U", "_",
      "a", "b", "c", "d", "e", "f", "g", "h", "i", "j", "k", "l", "m",
      "n", "o", "p", "q", "r", "s", "t", "u", "v", "w", "x", "y", "z", "~">>

ord(c) == CHOOSE i \in 1..Len(Alphabet) : Alphabet[i] = c

AnyChars == {Alphabet[i] : i \in 1..Len(Alphabet)}
DigitChars == {"0", "1", "2", "3", "4", "5", "6", "7", "8", "9"}
LowerChars == {Alphabet[i] : i \in 20..45}
HexChars == DigitChars \cup {"a", "b", "c", "d", "e", "f"}

\* the optional values of the code: None, or a value
None == [some |-> FALSE, v |-> <<>>]
Some(v) == [some |-> TRUE, v |-> v]
\* the truth value Python gives an optional str or dict
Truthy(x) == x.some /\ x.v # <<>>

\* str.lower()
lower_char(c) ==
    CASE c = "E" -> "e" [] c = "M" -> "m" [] c = "N" -> "n"
      [] c = "P" -> "p" [] c = "S" -> "s" [] c = "U" -> "u" [] OTHER -> c

lower(s) == [i \in 1..Len(s) |-> lower_char(s[i])]

\* language.replace("_", "-")
replace_underscore(s) == [i \in 1..Len(s) |-> IF s[i] = "_" THEN "-" ELSE s[i]]

\* the order of str
RECURSIVE TextLess(_, _)
TextLess(a, b) ==
    IF a = <<>> THEN b # <<>>
    ELSE IF b = <<>> THEN FALSE
    ELSE IF a[1] = b[1] THEN TextLess(Tail(a), Tail(b))
    ELSE ord(a[1]) < ord(b[1])

\* the character of s at position i, "" past its end
At(s, i) == IF i \in 1..Len(s) THEN s[i] ELSE ""

\* the length of the longest run of characters of cls in s from position i
RECURSIVE RunLen(_, _, _)
RunLen(s, i, cls) == IF At(s, i) \in cls THEN 1 + RunLen(s, i + 1, cls) ELSE 0

\* ------------------------------------------------------------- filename grammar
\* [a-f0-9]{40}
HashLen == 40

\* KEY_PATTERN.format(g1, g2, g3, g4)
KEY_PATTERN(g1, g2, g3, g4) == g1 \o <<"_">> \o g2 \o <<"_">> \o g3 \o <<"_">> \o g4

NoMatch == [ok |-> FALSE, key |-> <<>>, end |-> 0]

\* pattern.match(s) of ([a-f0-9]{40})_([^_]+)_([^_]+)_(ENGINE)\.[a-z0-9]{3,4}, where
\* ENGINE is [a-z_]+ in _RE_LEGACY_VOICE_FILE and tts\.[a-z0-9_]+ in
\* _RE_VOICE_FILE.  match anchors the pattern at the start of s only: end is
\* the last position it consumes.  No class holds the character that follows
\* its group, so each group is the longest run of its class.
re_match(s, legacy) ==
    LET p2 == HashLen + 2
        n2 == RunLen(s, p2, AnyChars \ {"_"})
        p3 == p2 + n2 + 1
        n3 == RunLen(s, p3, AnyChars \ {"_"})
        p4 == p3 + n3 + 1
        tts == Len(s) >= p4 + 3 /\ SubSeq(s, p4, p4 + 3) = <<"t", "t", "s", ".">>
        n4 == IF legacy THEN RunLen(s, p4, LowerChars \cup {"_"})
              ELSE IF tts THEN 4 + RunLen(s, p4 + 4, LowerChars \cup DigitChars \cup {"_"})
              ELSE 0
        pe == p4 + n4
        ne == RunLen(s, pe + 1, LowerChars \cup DigitChars)
    IN IF /\ RunLen(s, 1, HexChars) >= HashLen
          /\ At(s, HashLen + 1) = "_"
          /\ n2 >= 1 /\ At(s, p2 + n2) = "_"
          /\ n3 >= 1 /\ At(s, p3 + n3) = "_"
          /\ n4 >= (IF legacy THEN 1 ELSE 5)
          /\ At(s, pe) = "."
          /\ ne >= 3
       THEN [ok |-> TRUE,
             key |-> KEY_PATTERN(SubSeq(s, 1, HashLen), SubSeq(s, p2, p2 + n2 - 1),
                                 SubSeq(s, p3, p3 + n3 - 1), SubSeq(s, p4, pe - 1)),
             end |-> pe + (IF ne >= 4 THEN 4 ELSE 3)]
       ELSE NoMatch

\* record := _RE_VOICE_FILE.match(s) or _RE_LEGACY_VOICE_FILE.match(s)
voice_file_match(s) ==
    IF re_match(s, FALSE).ok THEN re_match(s, FALSE) ELSE re_match(s, TRUE)

\* ------------------------------------------------------------- cache key
\* the messages, option items (name, value) and engines of the requests
Messages == {<<"h", "i">>, <<"y", "o">>}
ATTR_AUDIO_OUTPUT == <<"a", "u", "d", "i", "o", "_", "o", "u", "t", "p", "u", "t">>
mp3 == <<"m", "p", "3">>
OptionItems ==
    {<<ATTR_AUDIO_OUTPUT, mp3>>, <<ATTR_AUDIO_OUTPUT, <<"x">>>>,
     <<<<"v">>, <<"a">>>>, <<<<"v">>, <<"x", "a">>>>, <<<<"v", "x">>, <<"a">>>>}
\* a dict is the sequence of its items in insertion order; its names differ
OptionDicts ==
    {<<>>} \cup {<<a>> : a \in OptionItems}
           \cup {d \in {<<a, b>> : a \in OptionItems, b \in OptionItems} :
                     d[1][1] # d[2][1]}

\* the order of tuples (name, value)
ItemLess(a, b) == TextLess(a[1], b[1]) \/ (a[1] = b[1] /\ TextLess(a[2], b[2]))

\* sorted(options.items())
RECURSIVE sorted(_)
sorted(items) ==
    IF items = <<>> THEN <<>>
    ELSE LET m == CHOOSE i \in 1..Len(items) :
                    \A j \in 1..Len(items) : ~ItemLess(items[j], items[i])
         IN <<items[m]>> \o sorted([i \in 1..(Len(items) - 1) |->
                                       IF i < m THEN items[i] ELSE items[i + 1]])

\* the bytes opts_hash.update is given, one after the other
RECURSIVE updates(_)
updates(items) ==
    IF items = <<>> THEN <<>>
    ELSE items[1][1] \o items[1][2] \o updates(Tail(items))

\* hexdigest() of a digest that is free of collisions: the number, in len
\* hexadecimal digits, of the hashed bytes among all the bytes that are hashed
HexDigits ==
    <<"0", "1", "2", "3", "4", "5", "6", "7", "8", "9", "a", "b", "c", "d", "e", "f">>

RECURSIVE hex(_, _)
hex(n, len) ==
    IF len = 0 THEN <<>> ELSE Append(hex(n \div 16, len - 1), HexDigits[(n % 16) + 1])

hexdigest(bytes, hashed, len) == hex(Cardinality({x \in hashed : TextLess(x, bytes)}), len)

\* hashlib.sha1(...).hexdigest() has 40 digits, blake2s(digest_size=5) has 10
Sha1Digits == 40
Blake2sDigits == 10

hash_options_unsorted(items) ==
    hexdigest(updates(items), {updates(sorted(o)) : o \in OptionDicts} \cup
                              {updates(o) : o \in OptionDicts}, Blake2sDigits)

\* _hash_options(options)
_hash_options(items) ==
    hexdigest(updates(sorted(items)), {updates(sorted(o)) : o \in OptionDicts} \cup
                                      {updates(o) : o \in OptionDicts}, Blake2sDigits)

\* _generate_cache_key(message, language, options, engine)
_generate_cache_key(message, language, options, engine) ==
    LET options_key == IF Truthy(options) THEN _hash_options(options.v) ELSE <<"-">>
        msg_hash == hexdigest(message, Messages, Sha1Digits)
    IN lower(KEY_PATTERN(msg_hash, replace_underscore(language), options_key, engine))

\* ------------------------------------------------------------- process_options
\* x in a list
In(x, list) == \E i \in 1..Len(list) : list[i] = x

\* the names of a dict, in its order
Names(items) == [i \in 1..Len(items) |-> items[i][1]]
HasName(items, name) == \E i \in 1..Len(items) : items[i][1] = name
\* d[name] = value
SetItem(items, name, value) ==
    IF HasName(items, name)
    THEN [i \in 1..Len(items) |-> IF items[i][1] = name THEN <<name, value>> ELSE items[i]]
    ELSE Append(items, <<name, value>>)
\* d[name]
GetItem(items, name) == items[CHOOSE i \in 1..Len(items) : items[i][1] = name][2]

RECURSIVE update(_, _)
update_keeps_defaults(merged, items) ==
    IF items = <<>> THEN merged
    ELSE update(IF HasName(merged, items[1][1]) THEN merged
                ELSE SetItem(merged, items[1][1], items[1][2]), Tail(items))

\* merged_options = dict(default_options); merged_options.update(options)
update(merged, items) ==
    IF items = <<>> THEN merged
    ELSE update(SetItem(merged, items[1][1], items[1][2]), Tail(items))

\* [opt_name for opt_name in options if opt_name not in supported_options]
invalid_opts(items, supported) == SelectSeq(Names(items), LAMBDA n : ~In(n, supported))

\* what process_options returns (error "none") or raises
Processed(error, language, options, invalid) ==
    [error |-> error, language |-> language, options |-> options, invalid |-> invalid]

language_or_default_when_unsupported(engine, language) ==
    IF Truthy(language) /\ In(language.v, engine.supported_languages.v) THEN language
    ELSE engine.default_language

\* language or engine_instance.default_language
language_or_default(engine, language) ==
    IF Truthy(language) THEN language ELSE engine.default_language

\* process_options(engine_instance, language, options)
process_options(engine, language, options) ==
    LET lang == language_or_default(engine, language)
        defaults == engine.default_options
        merged == IF Truthy(defaults) /\ Truthy(options)
                  THEN Some(update(defaults.v, options.v))
                  ELSE options
        opts == IF Truthy(merged) THEN merged
                ELSE IF defaults.some THEN Some(defaults.v) ELSE None
        supported == IF engine.supported_options.some THEN engine.supported_options.v
                     ELSE <<>>
        invalid == IF opts.some THEN invalid_opts(opts.v, supported) ELSE <<>>
    IN IF \/ ~lang.some
          \/ ~engine.supported_languages.some
          \/ ~In(lang.v, engine.supported_languages.v)
       THEN Processed("language", lang.v, None, <<>>)
       ELSE IF invalid # <<>>
       THEN Processed("options", lang.v, None, invalid)
       ELSE Processed("none", lang.v, opts, <<>>)

\* ------------------------------------------------------------- engine and keys
en == <<"e", "n">>

\* the engine instance the requests of Spec name
Engine ==
    [name |-> <<"d", "e", "m", "o">>,
     default_language |-> Some(en),
     supported_languages |-> Some(<<en>>),
     default_options |-> None,
     supported_options |-> Some(<<ATTR_AUDIO_OUTPUT, <<"v">>>>)]

\* the message and the options of the requests a key stands for: the options
\* hold audio_output iff hasExt
Message(k) == <<"h", "i">>
Options(k, h) == IF h THEN Some(<<<<ATTR_AUDIO_OUTPUT, mp3>>>>) ELSE None

\* cache_key, the str, of a key
KeyTexts ==
    [k \in Keys, h \in BOOLEAN |->
        _generate_cache_key(Message(k), en, Options(k, h), Engine.name)]

\* the extensions of the model as str; "None" is no extension at all
AllExts == {"mp3", "wav", "MP3", "x", "mp3~"}
ExtText(ext) ==
    CASE ext = "mp3" -> mp3
      [] ext = "wav" -> <<"w", "a", "v">>
      [] ext = "MP3" -> <<"M", "P", "3">>
      [] ext = "x" -> <<"x">>
      [] ext = "mp3~" -> <<"m", "p", "3", "~">>

\* filename.lower()
LowerName(filename) == <<filename[1], IF filename[2] = "MP3" THEN "mp3" ELSE filename[2]>>
\* f"{cache_key}.{extension}".lower()
Filename(k, ext) == LowerName(<<k, ext>>)
\* os.path.splitext(filename)[1][1:]
ExtOf(filename) == filename[2]

\* a filename as str
NameTexts ==
    [k \in Keys, h \in BOOLEAN, ext \in AllExts |->
        KeyTexts[k, h] \o <<".">> \o ExtText(ext)]

\* the match of `_RE_VOICE_FILE.match(name) or _RE_LEGACY_VOICE_FILE.match(name)`
\* for the lowercase of each filename
NameMatches ==
    [k \in Keys, h \in BOOLEAN, ext \in AllExts |->
        voice_file_match(lower(NameTexts[k, h, ext]))]
NameMatch(filename) == NameMatches[filename[1], hasExt[filename[1]], filename[2]]

\* the key with a str, "?" when it is the str of no key of the model
KeyAtom(text) ==
    IF \E k \in Keys : KeyTexts[k, hasExt[k]] = text
    THEN CHOOSE k \in Keys : KeyTexts[k, hasExt[k]] = text
    ELSE "?"

\* record.group(1..4) joined by KEY_PATTERN, for filename.lower()
KeyOf(filename) == KeyAtom(NameMatch(filename).key)

\* the match of _get_cache_files, which is for the filename as it is listed
ListedMatches ==
    [k \in Keys, h \in BOOLEAN, ext \in AllExts |-> voice_file_match(NameTexts[k, h, ext])]
ListedMatch(filename) == ListedMatches[filename[1], hasExt[filename[1]], filename[2]]

\* _get_cache_files(cache_dir), where os.listdir gives the sequence listing
RECURSIVE _get_cache_files(_)
_get_cache_files(listing) ==
    IF listing = <<>> THEN EmptyMap
    ELSE LET cache == _get_cache_files(SubSeq(listing, 1, Len(listing) - 1))
             file_data == listing[Len(listing)]
             record == ListedMatch(file_data)
         IN IF record.ok
            THEN Put(cache, KeyAtom(lower(record.key)), LowerName(file_data))
            ELSE cache

\* the orders in which os.listdir can give the files of a folder
Listings(files) ==
    {l \in [1..Cardinality(files) -> files] :
        \A i, j \in 1..Cardinality(files) : i # j => l[i] # l[j]}

\* the bytes of the files a folder holds when the manager starts
FolderBytes(filename) == IF filename[2] = "mp3" THEN "a+id3" ELSE "b"


\* write_tags: mutagen adds the ID3 tags to the bytes of an mp3, and returns
\* bytes it cannot read as they are
write_tags(data) ==
    IF data = "a" THEN "a+id3" ELSE IF data = "b" THEN "b+id3" ELSE data

\* ------------------------------------------------------------- memory cache
Placeholder(filename, t) ==
    [filename |-> filename, voice |-> "", pending |-> t, id |-> <<"placeholder", t>>]

\* _async_store_to_memcache: the entry it installs (id names the installation)
StoredEntry(filename, data, id) ==
    [filename |-> filename, voice |-> data, pending |-> 0, id |-> id]

_async_store_to_memcache(m, k, filename, data, id) ==
    Put(m, k, StoredEntry(filename, data, id))

async_remove_from_mem_keeps_entry(m, tm) == m

\* async_remove_from_mem of the timer scheduled for (k, id)
async_remove_from_mem(m, tm) == Remove(m, tm.key)

handle_error_keeps_placeholder(m, t) == m

\* handle_error, the done callback of a task that installed a placeholder;
\* audio_task.exception() raises for a cancelled task, so nothing is popped then
handle_error(m, t) ==
    IF t.outcome = "error" THEN Remove(m, t.key) ELSE m

\* ------------------------------------------------------------- calls
NoRes == [kind |-> "none", ext |-> "-", data |-> "-"]

NewCall(op, k, cache) ==
    [op |-> op, key |-> k, cache |-> cache, pc |-> "start", task |-> 0,
     ext |-> "-", file |-> NoFile, rdata |-> "-", path |-> "none",
     load |-> "none", cancelled |-> FALSE, res |-> NoRes]

Finish(c, kind, ext, data) ==
    [c EXCEPT !.pc = "done", !.rdata = "-",
              !.res = [kind |-> kind, ext |-> ext, data |-> data]]

Done(t) == t.state \in {"finished", "handled"}

\* lines 579-581, 771-773: what follows `await pending` once the task is done
AfterPending(c, m, ts) ==
    LET t == ts[c.task] IN
    IF t.outcome = "error" THEN Finish(c, "synth_error", "-", "-")
    ELSE IF t.outcome = "cancelled" THEN Finish(c, "cancelled", "-", "-")
    ELSE IF c.key \notin DOMAIN m THEN Finish(c, "KeyError", "-", "-")
    ELSE Finish(c, "ok", c.ext, m[c.key].voice)

\* lines 576-581 of async_get_tts_audio and 768-773 of async_read_tts
ReadMem(c, m, ts) ==
    IF c.key \notin DOMAIN m THEN Finish(c, "KeyError", "-", "-")
    ELSE LET e == m[c.key]
             ext == IF c.op = "audio" THEN ExtOf(e.filename) ELSE c.ext
         IN IF e.pending # 0
            THEN IF Done(ts[e.pending])
                 THEN AfterPending([c EXCEPT !.ext = ext, !.task = e.pending], m, ts)
                 ELSE [c EXCEPT !.pc = "wait_pending", !.ext = ext, !.task = e.pending]
            ELSE Finish(c, "ok", ext, e.voice)

\* ------------------------------------------------------------- tasks
NewTask(k, cache, placeholder) ==
    [key |-> k, cache |-> cache, placeholder |-> placeholder, state |-> "running",
     outcome |-> "none", ext |-> "-", data |-> "-", save |-> "none"]

\* what the engine's async_get_tts_audio returns: (extension, data), each of
\* which can be None
Returned(ext, data) == [ext |-> ext, data |-> data]

TypeOK ==
    /\ DOMAIN mem_cache \subseteq Keys
    /\ DOMAIN file_cache \subseteq Keys
    /\ Len(tasks) <= MaxTasks
    /\ Len(calls) <= MaxCalls

\* the manager after __init__ and async_init_cache, for an engine that can
\* return results and a cache_dir that holds one of folders
Start(results, folders) ==
    /\ mem_cache = EmptyMap
    /\ hasExt \in [Keys -> BOOLEAN]
    /\ backend = results
    /\ pure = "-"
    /\ \E files \in folders :
         /\ \E listing \in Listings(files) : file_cache = _get_cache_files(listing)
         /\ disk = [f \in files |-> FolderBytes(f)]
    /\ tasks = <<>>
    /\ calls = <<>>
    /\ timers = {}
    /\ clear = [pc |-> "idle", count |-> 0, cached |-> {}, calls |-> 0]

\* the engine returns audio with an extension, and cache_dir holds the mp3
\* files of some keys
Init ==
    Start({Returned(ext, raw) : ext \in Exts, raw \in Bytes},
          {{Filename(k, "mp3") : k \in found} : found \in SUBSET Keys})

\* ------------------------------------------------------------- requests
UseDisk_ignores_use_cache(k, cache) == k \in DOMAIN file_cache

\* `use_cache and cache_key in self.file_cache` (lines 535, 569)
UseDisk(k, cache) == cache /\ k \in DOMAIN file_cache

TasksAfterCreate_always_saves(k, cache) == Append(tasks, NewTask(k, TRUE, hasExt[k]))

\* _async_get_tts_audio up to its first suspension: audio_task is created, and
\* with an expected extension the placeholder is installed (lines 660-678)
TasksAfterCreate(k, cache) == Append(tasks, NewTask(k, cache, hasExt[k]))

MemAfterCreate_without_placeholder(k) == mem_cache

MemAfterCreate(k) ==
    IF hasExt[k]
    THEN Put(mem_cache, k, Placeholder(Filename(k, ExpectedExt), Len(tasks) + 1))
    ELSE mem_cache

\* async_get_tts_audio once the key is known (lines 564-581), to its first
\* suspension or its return
GetTtsAudio(k, cache) ==
    /\ Len(calls) < MaxCalls
    /\ LET c == NewCall("audio", k, cache) IN
       IF k \in DOMAIN mem_cache
       THEN /\ calls' = Append(calls, ReadMem([c EXCEPT !.path = "mem"], mem_cache, tasks))
            /\ UNCHANGED <<mem_cache, tasks>>
       ELSE IF UseDisk(k, cache)
       THEN /\ calls' = Append(calls, [c EXCEPT !.path = "load", !.pc = "loading",
                                                !.file = file_cache[k]])
            /\ UNCHANGED <<mem_cache, tasks>>
       ELSE /\ Len(tasks) < MaxTasks
            /\ tasks' = TasksAfterCreate(k, cache)
            /\ mem_cache' = MemAfterCreate(k)
            /\ calls' = Append(calls,
                 IF hasExt[k]
                 THEN ReadMem([c EXCEPT !.path = "synth"], mem_cache', tasks')
                 ELSE [c EXCEPT !.path = "synth", !.pc = "wait_task",
                                !.task = Len(tasks) + 1])
    /\ UNCHANGED <<file_cache, disk, static, timers, clear>>

\* async_get_url_path once the key is known (lines 529-547); the result's ext
\* is the extension of the filename in the URL
GetUrlPath(k, cache) ==
    /\ Len(calls) < MaxCalls
    /\ LET c == NewCall("url", k, cache) IN
       IF k \in DOMAIN mem_cache
       THEN /\ calls' = Append(calls, Finish([c EXCEPT !.path = "mem"], "ok",
                                             ExtOf(mem_cache[k].filename), "-"))
            /\ UNCHANGED <<mem_cache, tasks>>
       ELSE IF UseDisk(k, cache)
       THEN \* the promotion runs as a task of its own
            /\ calls' = Append(calls,
                 [c EXCEPT !.path = "load", !.pc = "bg_start",
                           !.res = [kind |-> "ok", ext |-> ExtOf(file_cache[k]),
                                    data |-> "-"]])
            /\ UNCHANGED <<mem_cache, tasks>>
       ELSE /\ Len(tasks) < MaxTasks
            /\ tasks' = TasksAfterCreate(k, cache)
            /\ mem_cache' = MemAfterCreate(k)
            /\ calls' = Append(calls,
                 IF hasExt[k]
                 THEN Finish([c EXCEPT !.path = "synth", !.task = Len(tasks) + 1],
                             "ok", ExpectedExt, "-")
                 ELSE [c EXCEPT !.path = "synth", !.pc = "wait_task",
                                !.task = Len(tasks) + 1])
    /\ UNCHANGED <<file_cache, disk, static, timers, clear>>

ReadTts_synthesizes(filename) ==
    /\ Len(calls) < MaxCalls
    /\ Len(tasks) < MaxTasks
    /\ NameMatch(filename).ok
    /\ KeyOf(filename) \notin DOMAIN mem_cache \cup DOMAIN file_cache
    /\ tasks' = TasksAfterCreate(KeyOf(filename), TRUE)
    /\ mem_cache' = MemAfterCreate(KeyOf(filename))
    /\ calls' = Append(calls, [NewCall("read", KeyOf(filename), TRUE) EXCEPT
                                 !.path = "synth", !.pc = "wait_task",
                                 !.task = Len(tasks) + 1])
    /\ UNCHANGED <<file_cache, disk, static, timers, clear>>

\* async_read_tts(filename), to its first suspension or its return
ReadTts(filename) ==
    /\ Len(calls) < MaxCalls
    /\ LET k == KeyOf(filename)
           c == [NewCall("read", k, TRUE) EXCEPT !.ext = ExtOf(filename)] IN
       IF ~NameMatch(filename).ok
       THEN calls' = Append(calls, Finish([c EXCEPT !.key = filename[1]],
                                          "wrong_format", "-", "-"))
       ELSE IF k \in DOMAIN mem_cache
       THEN calls' = Append(calls, ReadMem([c EXCEPT !.path = "mem"], mem_cache, tasks))
       ELSE IF k \notin DOMAIN file_cache
       THEN calls' = Append(calls, Finish(c, "not_in_cache", "-", "-"))
       ELSE calls' = Append(calls, [c EXCEPT !.path = "load", !.pc = "loading",
                                             !.file = file_cache[k]])
    /\ UNCHANGED <<mem_cache, file_cache, disk, static, tasks, timers, clear>>

\* the requests made for a key: as the key's message, language and options
\* ("plain"), with a language the engine does not support ("language"), or
\* with one more option, which the engine does not support ("option")
Variants == {"plain", "language", "option"}

RequestOf(k, h, variant) ==
    [message |-> Message(k),
     language |-> IF variant = "language" THEN Some(<<"x", "x">>) ELSE None,
     options |-> IF variant = "option"
                 THEN Some(Options(k, h).v \o << <<<<"v", "x">>, <<"a">>>> >>)
                 ELSE Options(k, h)]

\* lines 527-528 and 562-563: process_options and, of what it returns,
\* _generate_cache_key as a key of the model
Processing ==
    [k \in Keys, h \in BOOLEAN, variant \in Variants |->
        LET req == RequestOf(k, h, variant)
            p == process_options(Engine, req.language, req.options)
            text == _generate_cache_key(req.message, p.language, p.options, Engine.name)
        IN [error |-> p.error,
            key |-> IF p.error = "none" /\ \E j \in Keys : KeyTexts[j, h] = text
                    THEN CHOOSE j \in Keys : KeyTexts[j, h] = text
                    ELSE "?"]]

\* the call ends with the HomeAssistantError process_options raised
Rejected(op, k, cache, error) ==
    /\ Len(calls) < MaxCalls
    /\ calls' = Append(calls, Finish(NewCall(op, k, cache), error, "-", "-"))
    /\ UNCHANGED <<mem_cache, file_cache, disk, static, tasks, timers, clear>>

\* async_get_tts_audio(engine, message, cache, language, options)
async_get_tts_audio(k, variant, cache) ==
    LET p == Processing[k, hasExt[k], variant] IN
    IF p.error # "none" THEN Rejected("audio", k, cache, p.error)
    ELSE GetTtsAudio(p.key, cache)

\* async_get_url_path(engine, message, cache, language, options)
async_get_url_path(k, variant, cache) ==
    LET p == Processing[k, hasExt[k], variant] IN
    IF p.error # "none" THEN Rejected("url", k, cache, p.error)
    ELSE GetUrlPath(p.key, cache)

\* ------------------------------------------------------------- _async_file_to_mem
\* first step of the promotion task async_get_url_path created (line 705)
LoadStart(i) ==
    /\ i \in 1..Len(calls)
    /\ calls[i].pc = "bg_start"
    /\ calls' = [calls EXCEPT ![i] =
         IF calls[i].key \in DOMAIN file_cache
         THEN [@ EXCEPT !.pc = "loading", !.file = file_cache[calls[i].key]]
         ELSE [@ EXCEPT !.pc = "done", !.load = "no_key"]]
    /\ UNCHANGED <<mem_cache, file_cache, disk, static, tasks, timers, clear>>

\* load_speech in the executor thread
LoadRead(i) ==
    /\ i \in 1..Len(calls)
    /\ calls[i].pc = "loading"
    /\ calls' = [calls EXCEPT ![i].pc = "loaded",
                              ![i].rdata = IF calls[i].file \in DOMAIN disk
                                           THEN disk[calls[i].file] ELSE "OSError"]
    /\ UNCHANGED <<mem_cache, file_cache, disk, static, tasks, timers, clear>>

\* lines 715-721 after the executor job, and the caller's continuation
LoadResume(i) ==
    /\ i \in 1..Len(calls)
    /\ calls[i].pc = "loaded"
    /\ LET data == calls[i].rdata
           c == [calls[i] EXCEPT !.rdata = "-"]
           id == <<"load", i>> IN
       IF data = "OSError"
       THEN /\ UNCHANGED <<mem_cache, timers>>
            /\ IF c.key \in DOMAIN file_cache
               THEN /\ file_cache' = Remove(file_cache, c.key)
                    /\ calls' = [calls EXCEPT ![i] =
                         IF c.op = "url" THEN [c EXCEPT !.pc = "done", !.load = "read_error"]
                         ELSE [Finish(c, "read_error", "-", "-") EXCEPT !.load = "read_error"]]
               ELSE \* del self.file_cache[cache_key] of a key that is gone
                    /\ UNCHANGED file_cache
                    /\ calls' = [calls EXCEPT ![i] =
                         IF c.op = "url" THEN [c EXCEPT !.pc = "done", !.load = "KeyError"]
                         ELSE [Finish(c, "KeyError", "-", "-") EXCEPT !.load = "KeyError"]]
       ELSE /\ mem_cache' = _async_store_to_memcache(mem_cache, c.key, c.file, data, id)
            /\ timers' = timers \cup {[key |-> c.key, id |-> id]}
            /\ UNCHANGED file_cache
            /\ calls' = [calls EXCEPT ![i] =
                 IF c.op = "url" THEN [c EXCEPT !.pc = "done", !.load = "ok"]
                 ELSE ReadMem([c EXCEPT !.load = "ok"], mem_cache', tasks)]
    /\ UNCHANGED <<disk, static, tasks, clear>>

\* ------------------------------------------------------------- get_tts_data
\* `data is None or extension is None`
NoTts(r) == r.data = "None" \/ r.ext = "None"

\* the task is cancelled at its await, or the engine raises, or it returns and
\* get_tts_data runs to its end (lines 630-658)
TaskFinish(t) ==
    /\ t \in 1..Len(tasks)
    /\ \/ /\ tasks[t].state = "cancelling"
          /\ tasks' = [tasks EXCEPT ![t].state = "finished", ![t].outcome = "cancelled"]
          /\ UNCHANGED <<mem_cache, timers>>
       \/ /\ tasks[t].state = "running"
          /\ tasks' = [tasks EXCEPT ![t].state = "finished", ![t].outcome = "error"]
          /\ UNCHANGED <<mem_cache, timers>>
       \/ /\ tasks[t].state = "running"
          /\ \E r \in backend :
               LET data == IF r.ext = "mp3" THEN write_tags(r.data) ELSE r.data
                   id == <<"task", t>>
                   k == tasks[t].key
                   filename == Filename(k, r.ext) IN
               IF NoTts(r) \/ ~NameMatch(filename).ok
               THEN /\ tasks' = [tasks EXCEPT ![t].state = "finished",
                                              ![t].outcome = "error"]
                    /\ UNCHANGED <<mem_cache, timers>>
               ELSE /\ mem_cache' = _async_store_to_memcache(mem_cache, k, filename, data, id)
                    /\ timers' = timers \cup {[key |-> k, id |-> id]}
                    /\ tasks' = [tasks EXCEPT ![t].state = "finished", ![t].outcome = "ok",
                                              ![t].ext = ExtOf(filename), ![t].data = data,
                                              ![t].save = IF tasks[t].cache THEN "pending"
                                                          ELSE "none"]
    /\ UNCHANGED <<file_cache, disk, static, calls, clear>>

\* the continuation of a caller suspended on audio_task
Wake(c, m, ts) ==
    IF c.pc = "wait_pending" THEN AfterPending(c, m, ts)
    ELSE LET t == ts[c.task] IN
         IF t.outcome = "error" THEN Finish(c, "synth_error", "-", "-")
         ELSE IF t.outcome = "cancelled" THEN Finish(c, "cancelled", "-", "-")
         ELSE IF c.op = "url" THEN Finish(c, "ok", t.ext, "-")
         ELSE ReadMem(c, m, ts)

Waiting(c, t) == c.task = t /\ c.pc \in {"wait_pending", "wait_task"}

\* the callbacks of a finished audio_task, run back to back by the loop in the
\* order they were added: handle_error, then the wake-up of every awaiting caller
DoneCallbacks(t) ==
    /\ t \in 1..Len(tasks)
    /\ tasks[t].state = "finished"
    /\ tasks' = [tasks EXCEPT ![t].state = "handled"]
    /\ mem_cache' = IF tasks[t].placeholder THEN handle_error(mem_cache, tasks[t])
                    ELSE mem_cache
    /\ calls' = [i \in 1..Len(calls) |->
                   IF Waiting(calls[i], t) THEN Wake(calls[i], mem_cache', tasks')
                   ELSE calls[i]]
    /\ UNCHANGED <<file_cache, disk, static, timers, clear>>

\* a caller suspended on audio_task is cancelled: Task.cancel() cancels the
\* future the caller awaits, which is audio_task itself (no shield)
Cancel(i) ==
    /\ i \in 1..Len(calls)
    /\ calls[i].pc \in {"wait_pending", "wait_task"}
    /\ tasks[calls[i].task].state = "running"
    /\ tasks' = [tasks EXCEPT ![calls[i].task].state = "cancelling"]
    /\ calls' = [calls EXCEPT ![i].cancelled = TRUE]
    /\ UNCHANGED <<mem_cache, file_cache, disk, static, timers, clear>>

\* ------------------------------------------------------------- _async_save_tts_audio
\* save_speech in the executor thread: the file is written, or OSError
SaveWrite(t) ==
    /\ t \in 1..Len(tasks)
    /\ tasks[t].save = "pending"
    /\ \/ /\ disk' = Put(disk, Filename(tasks[t].key, tasks[t].ext), tasks[t].data)
          /\ tasks' = [tasks EXCEPT ![t].save = "written"]
       \/ /\ tasks' = [tasks EXCEPT ![t].save = "failed"]
          /\ UNCHANGED disk
    /\ UNCHANGED <<mem_cache, file_cache, static, calls, timers, clear>>

SaveResume_indexes_failed_write(t) ==
    /\ t \in 1..Len(tasks)
    /\ tasks[t].save \in {"written", "failed"}
    /\ file_cache' = Put(file_cache, tasks[t].key, Filename(tasks[t].key, tasks[t].ext))
    /\ tasks' = [tasks EXCEPT ![t].save = IF tasks[t].save = "written" THEN "saved"
                                          ELSE "logged"]
    /\ UNCHANGED <<mem_cache, disk, static, calls, timers, clear>>

\* lines 696-698 after the executor job
SaveResume(t) ==
    /\ t \in 1..Len(tasks)
    /\ tasks[t].save \in {"written", "failed"}
    /\ file_cache' = IF tasks[t].save = "written"
                     THEN Put(file_cache, tasks[t].key,
                              Filename(tasks[t].key, tasks[t].ext))
                     ELSE file_cache
    /\ tasks' = [tasks EXCEPT ![t].save = IF tasks[t].save = "written" THEN "saved"
                                          ELSE "logged"]
    /\ UNCHANGED <<mem_cache, disk, static, calls, timers, clear>>

\* ------------------------------------------------------------- eviction timer
\* the handles async_call_later can return: one for each store, by a task or a load
TimerHandles ==
    {[key |-> k, id |-> <<by, n>>] :
        k \in Keys, by \in {"task", "load"}, n \in 1..(MaxCalls + MaxTasks)}

\* a timer handle is only run by the loop after the callbacks that were ready when
\* it was scheduled, so not before the done callbacks of the task that scheduled it
Due(tm) == tm.id[1] = "task" => tasks[tm.id[2]].state = "handled"

TimerFire(tm) ==
    /\ tm \in timers
    /\ Due(tm)
    /\ mem_cache' = async_remove_from_mem(mem_cache, tm)
    /\ timers' = timers \ {tm}
    /\ UNCHANGED <<file_cache, disk, static, tasks, calls, clear>>

\* ------------------------------------------------------------- async_clear_cache
\* line 450 and the submission of remove_files; cached remembers the keys that
\* were cached and calls the number of calls made when the clear was called
ClearStart ==
    /\ clear.pc = "idle"
    /\ clear.count < MaxClears
    /\ mem_cache' = EmptyMap
    /\ clear' = [clear EXCEPT !.pc = "removing",
                              !.cached = DOMAIN mem_cache \cup DOMAIN file_cache,
                              !.calls = Len(calls)]
    /\ UNCHANGED <<file_cache, disk, static, tasks, calls, timers>>

\* remove_files in the executor thread
ClearRemove ==
    /\ clear.pc = "removing"
    /\ disk' = [f \in (DOMAIN disk) \ {file_cache[k] : k \in DOMAIN file_cache} |-> disk[f]]
    /\ clear' = [clear EXCEPT !.pc = "removed"]
    /\ UNCHANGED <<mem_cache, file_cache, static, tasks, calls, timers>>

\* line 461
ClearFinish ==
    /\ clear.pc = "removed"
    /\ file_cache' = EmptyMap
    /\ clear' = [clear EXCEPT !.pc = "idle", !.count = @ + 1, !.cached = {},
                              !.calls = 0]
    /\ UNCHANGED <<mem_cache, disk, static, tasks, calls, timers>>

Next ==
    \/ \E k \in Keys, variant \in Variants, cache \in BOOLEAN :
          async_get_tts_audio(k, variant, cache)
    \/ \E k \in Keys, variant \in Variants, cache \in BOOLEAN :
          async_get_url_path(k, variant, cache)
    \/ \E k \in Keys, ext \in Exts : ReadTts(Filename(k, ext))
    \/ \E i \in 1..MaxCalls : LoadStart(i)
    \/ \E i \in 1..MaxCalls : LoadRead(i)
    \/ \E i \in 1..MaxCalls : LoadResume(i)
    \/ \E i \in 1..MaxCalls : Cancel(i)
    \/ \E t \in 1..MaxTasks : TaskFinish(t)
    \/ \E t \in 1..MaxTasks : DoneCallbacks(t)
    \/ \E t \in 1..MaxTasks : SaveWrite(t)
    \/ \E t \in 1..MaxTasks : SaveResume(t)
    \/ \E tm \in TimerHandles : TimerFire(tm)
    \/ ClearStart \/ ClearRemove \/ ClearFinish

Spec == Init /\ [][Next]_vars

\* ------------------------------------------------------------- any engine
\* the manager with an engine that can return no extension, no data, empty
\* data, and extensions of any form
AnyResults ==
    {Returned("mp3", "a"), Returned("wav", "b"), Returned("MP3", "a"),
     Returned("None", "a"), Returned("mp3", "None"), Returned("wav", ""),
     Returned("x", "a"), Returned("mp3~", "a")}

InitBackend ==
    Start(AnyResults, {{Filename(k, "mp3") : k \in found} : found \in SUBSET Keys})

SpecBackend == InitBackend /\ [][Next]_vars

\* ------------------------------------------------------------- the functions
\* process_options, _generate_cache_key and the filenames made of a key, each
\* applied to one argument: pure holds the function's name, the argument,
\* whether the function was applied, and then what it gave
AnyOptions == {None} \cup {Some(d) : d \in OptionDicts}

Engines ==
    [name : {Engine.name},
     default_language : {None, Some(en)},
     supported_languages : {None, Some(<<en, <<"d", "e">>>>)},
     default_options : {None, Some(<<>>), Some(<< <<<<"v">>, <<"a">>>> >>),
                        Some(<< <<<<"v">>, <<"a">>>>, <<<<"v", "x">>, <<"a">>>> >>)},
     supported_options : {None, Some(<<ATTR_AUDIO_OUTPUT, <<"v">>>>),
                          Some(<<ATTR_AUDIO_OUTPUT, <<"v">>, <<"v", "x">>>>)}]

ProcessArgs ==
    [engine : Engines,
     language : {None, Some(<<>>), Some(en), Some(<<"x", "x">>)},
     options : AnyOptions]

KeyArgs ==
    [message : Messages,
     language : {en, <<"e", "n", "_", "U", "S">>, <<"e", "n", "-", "u", "s">>},
     options : AnyOptions,
     engine : {Engine.name, <<"t", "t", "s", ".", "d", "e", "m", "o">>}]

\* a key, and the extension the engine returns for it
NameArgs ==
    [key : {a \in KeyArgs : a.message = <<"h", "i">> /\ a.language = en},
     extension : {ExtText(ext) : ext \in AllExts}]

InitPure ==
    /\ mem_cache = EmptyMap /\ file_cache = EmptyMap /\ disk = EmptyMap
    /\ hasExt = [k \in Keys |-> FALSE]
    /\ backend = {}
    /\ tasks = <<>> /\ calls = <<>> /\ timers = {}
    /\ clear = [pc |-> "idle", count |-> 0, cached |-> {}, calls |-> 0]
    /\ \/ \E a \in ProcessArgs :
            pure = [fn |-> "process_options", arg |-> a, done |-> FALSE, out |-> "-"]
       \/ \E a \in KeyArgs :
            pure = [fn |-> "_generate_cache_key", arg |-> a, done |-> FALSE, out |-> "-"]
       \/ \E a \in NameArgs :
            pure = [fn |-> "filename", arg |-> a, done |-> FALSE, out |-> "-"]

\* what the manager holds, which no function changes
managed == <<mem_cache, file_cache, disk, hasExt, backend, tasks, calls, timers, clear>>

Applied(out) == [pure EXCEPT !.done = TRUE, !.out = out]

ApplyProcessOptions ==
    /\ pure.fn = "process_options" /\ ~pure.done
    /\ pure' = Applied(process_options(pure.arg.engine, pure.arg.language,
                                       pure.arg.options))
    /\ UNCHANGED managed

ApplyGenerateCacheKey ==
    /\ pure.fn = "_generate_cache_key" /\ ~pure.done
    /\ pure' = Applied(_generate_cache_key(pure.arg.message, pure.arg.language,
                                           pure.arg.options, pure.arg.engine))
    /\ UNCHANGED managed

\* the filenames _async_get_tts_audio makes of a key: the placeholder's, when the
\* options hold audio_output (lines 611-612, 672), and the one get_tts_data
\* stores, when it does not raise (lines 636-644)
Filenames(a) ==
    LET key == _generate_cache_key(a.key.message, a.key.language, a.key.options,
                                   a.key.engine)
        expected == a.key.options.some /\ HasName(a.key.options.v, ATTR_AUDIO_OUTPUT)
        filename == lower(key \o <<".">> \o a.extension)
    IN [key |-> key,
        placeholder |->
            IF expected
            THEN Some(lower(key \o <<".">> \o GetItem(a.key.options.v, ATTR_AUDIO_OUTPUT)))
            ELSE None,
        stored |-> IF voice_file_match(filename).ok THEN Some(filename) ELSE None]

ApplyFilenames ==
    /\ pure.fn = "filename" /\ ~pure.done
    /\ pure' = Applied(Filenames(pure.arg))
    /\ UNCHANGED managed

NextPure == ApplyProcessOptions \/ ApplyGenerateCacheKey \/ ApplyFilenames

SpecPure == InitPure /\ [][NextPure]_vars

\* ------------------------------------------------------------- any folder
\* the manager started on a cache_dir that holds any files, then read by
\* filename and cleared
ListedExts == {"mp3", "MP3", "x", "mp3~"}

InitScan ==
    Start({}, {{<<k, ext>> : ext \in exts, k \in Keys} : exts \in SUBSET ListedExts})

NextScan ==
    \/ \E k \in Keys, ext \in AllExts : ReadTts(<<k, ext>>)
    \/ \E i \in 1..MaxCalls : LoadRead(i)
    \/ \E i \in 1..MaxCalls : LoadResume(i)
    \/ \E tm \in TimerHandles : TimerFire(tm)
    \/ ClearStart \/ ClearRemove \/ ClearFinish

SpecScan == InitScan /\ [][NextScan]_vars

\* ------------------------------------------------------------- properties
Running(t) == t.state \in {"running", "cancelling"}

\* the step is the start of a call of async_get_tts_audio / async_get_url_path
\* that process_options let through and whose cache key is k
RequestStep(k) ==
    /\ Len(calls') = Len(calls) + 1
    /\ calls'[Len(calls')].key = k
    /\ calls'[Len(calls')].op \in {"audio", "url"}
    /\ calls'[Len(calls')].res.kind \notin {"language", "options"}

\* the step is the start of any call
CallStep == Len(calls') = Len(calls) + 1

NoClearYet == clear.count = 0 /\ clear.pc = "idle"

\* C1: a request for a key that arrives while a synthesis of that key is in
\* flight, the key being in neither cache tier before the first request and no
\* clear_cache having run, starts no further backend synthesis: N concurrent
\* requests make one backend call, with or without an expected extension.
C1_ConcurrentRequestsShareOneSynthesis ==
    [][\A k \in Keys :
         ( /\ RequestStep(k)
           /\ NoClearYet
           /\ k \notin DOMAIN file_cache
           /\ \E t \in 1..Len(tasks) : tasks[t].key = k /\ Running(tasks[t]) )
         => Len(tasks') = Len(tasks)]_vars

\* C2: once a synthesis that installed a placeholder has started for a key, no
\* later synthesis of that key exists before the first one has terminated.
C2_NoSecondSynthesisWhilePending ==
    \A t1, t2 \in 1..Len(tasks) :
        ( /\ t1 < t2
          /\ tasks[t1].key = tasks[t2].key
          /\ tasks[t1].placeholder )
        => Done(tasks[t1])

\* the call found a pending entry in memory and awaited its task
FoundPending(c) == c.op \in {"audio", "read"} /\ c.task # 0 /\ tasks[c.task].placeholder

\* C3: every caller that awaited the pending entry of a synthesis gets that
\* synthesis's bytes when it succeeded and that synthesis's failure when it failed.
C3_WaitersGetTheSynthesisOutcome ==
    \A i \in 1..Len(calls) :
        LET c == calls[i] IN
        (c.pc = "done" /\ FoundPending(c)) =>
            LET t == tasks[c.task] IN
            /\ t.outcome = "ok" => (c.res.kind = "ok" /\ c.res.data = t.data)
            /\ t.outcome = "error" => c.res.kind = "synth_error"

\* the step runs the done callbacks of task t, which failed with an error
FailureHandled(t) ==
    /\ tasks[t].state = "finished"
    /\ tasks[t].outcome = "error"
    /\ tasks'[t].state = "handled"

\* the step is the failure of task t
Fails(t) == tasks[t].state = "running" /\ tasks'[t].outcome = "error"

\* C4 as stated: when the failure of a synthesis has been handled, its key is in
\* neither the memory cache nor the disk index.
C4_FailureLeavesKeyInNeitherTier ==
    [][\A t \in 1..Len(tasks) :
         FailureHandled(t) =>
             /\ tasks[t].key \notin DOMAIN mem_cache'
             /\ tasks[t].key \notin DOMAIN file_cache']_vars

\* C4 (amended): a synthesis that fails with an error adds nothing to the memory
\* cache, the disk index or the directory; once its failure has been handled the
\* placeholder it installed is gone (handle_error removes the key from memory) and
\* no placeholder of a handled failed synthesis is ever in memory; and a request
\* that does not find the key in memory and is not served from the disk index
\* invokes the backend again.
C4_FailureRollsBackPlaceholder ==
    /\ [](\A k \in DOMAIN mem_cache :
            mem_cache[k].pending # 0 =>
                ~ ( /\ tasks[mem_cache[k].pending].outcome = "error"
                    /\ tasks[mem_cache[k].pending].state = "handled" ))
    /\ [][\A t \in 1..Len(tasks) :
            /\ Fails(t) =>
                 /\ mem_cache' = mem_cache
                 /\ file_cache' = file_cache
                 /\ disk' = disk
                 /\ timers' = timers
            /\ FailureHandled(t) =>
                 /\ tasks[t].placeholder => tasks[t].key \notin DOMAIN mem_cache'
                 /\ ~tasks[t].placeholder => mem_cache' = mem_cache
                 /\ file_cache' = file_cache
                 /\ disk' = disk]_vars
    /\ [][\A k \in Keys :
            ( /\ RequestStep(k)
              /\ k \notin DOMAIN mem_cache
              /\ ~(calls'[Len(calls')].cache /\ k \in DOMAIN file_cache) )
            => /\ Len(tasks') = Len(tasks) + 1
               /\ tasks'[Len(tasks')].key = k
               /\ tasks'[Len(tasks')].state = "running"]_vars

\* C4 witness: the first synthesis installed a placeholder and failed, its failure
\* was handled, and a retry of the same key has started a second synthesis.
C4_Witness ==
    /\ Len(tasks) = 2
    /\ NoClearYet
    /\ timers = {}
    /\ tasks[1].placeholder
    /\ tasks[1].outcome = "error"
    /\ tasks[1].state = "handled"
    /\ tasks[2].key = tasks[1].key
    /\ tasks[2].state = "running"
    /\ \A i \in 1..Len(calls) : calls[i].path = "synth"
    /\ calls[1].pc = "done" /\ calls[1].res.kind = "synth_error"
    /\ tasks[1].key \in DOMAIN mem_cache
    /\ mem_cache[tasks[1].key].pending = 2

\* C5: the firing of the timer scheduled for one memory entry leaves a different
\* entry of the same key in the memory cache.
C5_StaleTimerKeepsNewerEntry ==
    [][\A tm \in timers :
         ( /\ timers' = timers \ {tm}
           /\ tm.key \in DOMAIN mem_cache
           /\ mem_cache[tm.key].id # tm.id )
         => mem_cache' = mem_cache]_vars

C7_ClearedKeysAreGone ==
    [][(clear.pc = "removed" /\ clear'.pc = "idle" /\ Len(calls) = clear.calls) =>
          \A k \in clear.cached :
              /\ k \notin DOMAIN mem_cache'
              /\ k \notin DOMAIN file_cache'
              /\ {f \in DOMAIN disk' : KeyOf(f) = k} = {}]_vars

\* C8: no call starts while a clear is running and has emptied the memory cache
\* but not yet the disk index, and nothing is cached when the clear returns.
C8_ClearIsAtomic ==
    /\ [][CallStep => ~(clear.pc # "idle" /\ DOMAIN file_cache # {})]_vars
    /\ [][(clear.pc = "removed" /\ clear'.pc = "idle") =>
             (DOMAIN mem_cache' = {} /\ DOMAIN file_cache' = {})]_vars

\* the promotions (_async_file_to_mem) of key k that are in progress
Promotions(k) ==
    {i \in 1..Len(calls) : calls[i].key = k
                            /\ calls[i].pc \in {"bg_start", "loading", "loaded"}}

\* C9: at most one promotion of a key from disk to memory is in progress.
C9_PromotionIsSingleFlight ==
    \A k \in Keys : Cardinality(Promotions(k)) <= 1

\* C10: after a caller awaiting a synthesis was cancelled, the callers that were
\* not cancelled do not end cancelled, and no placeholder stays in memory whose
\* pending task has terminated and run its callbacks.
C10_CancelledWaiterHarmsNobody ==
    /\ \A i \in 1..Len(calls) :
          (calls[i].pc = "done" /\ ~calls[i].cancelled) => calls[i].res.kind # "cancelled"
    /\ \A k \in DOMAIN mem_cache :
          mem_cache[k].pending # 0 => tasks[mem_cache[k].pending].state # "handled"

\* ------------------------------------------------------------- filename grammar (claims)
\* the whole of a str is a filename of the current or of the legacy grammar:
\* digest, language, options digest, engine and an extension of 3 or 4
\* characters, and nothing after it
InGrammar(text) ==
    \E legacy \in BOOLEAN :
        re_match(text, legacy).ok /\ re_match(text, legacy).end = Len(text)

GrammarNames ==
    [k \in Keys, h \in BOOLEAN, ext \in AllExts |-> InGrammar(lower(NameTexts[k, h, ext]))]

\* the filename of a key of the model is in the grammar
WellFormed(filename) == GrammarNames[filename[1], hasExt[filename[1]], filename[2]]

\* C11: a synthesis only succeeds, and installs its result, when the engine
\* returned data and an extension with which the filename is in the grammar;
\* once a failed synthesis is handled, its placeholder is gone
C11_UnusableResultIsNotInstalled ==
    \A t \in 1..Len(tasks) :
        /\ tasks[t].outcome = "ok" =>
              /\ tasks[t].ext # "None" /\ tasks[t].data # "None"
              /\ WellFormed(Filename(tasks[t].key, tasks[t].ext))
        /\ (tasks[t].outcome = "error" /\ tasks[t].state = "handled") =>
              ~(tasks[t].key \in DOMAIN mem_cache /\ mem_cache[tasks[t].key].pending = t)

\* C12: audio of zero bytes is never the result of a synthesis that succeeded,
\* the voice of a resolved memory entry, or the content of a cache file
C12_EmptyAudioIsNotInstalled ==
    /\ \A t \in 1..Len(tasks) : tasks[t].outcome = "ok" => tasks[t].data # ""
    /\ \A k \in DOMAIN mem_cache : mem_cache[k].pending = 0 => mem_cache[k].voice # ""
    /\ \A f \in DOMAIN disk : disk[f] # ""

\* the step is the start of a call of async_read_tts
ReadStep ==
    /\ Len(calls') = Len(calls) + 1
    /\ calls'[Len(calls')].op = "read"

\* C13: a task is only ever created by the start of a request, never by
\* async_read_tts; a read of a key in memory takes the entry (waits for its
\* pending task, or returns its voice), a read of a key only in the disk
\* index starts loading the indexed file, and a read of a key in neither fails
\* with the not-in-cache error and leaves both unchanged
C13_ReadIsCacheOnly ==
    [][/\ Len(tasks') > Len(tasks) => \E k \in Keys : RequestStep(k)
       /\ (ReadStep /\ calls'[Len(calls')].res.kind # "wrong_format") =>
            LET c == calls'[Len(calls')]
                k == c.key IN
            /\ tasks' = tasks
            /\ k \in DOMAIN mem_cache =>
                 /\ c.path = "mem"
                 /\ mem_cache[k].pending = 0 =>
                      c.res = [kind |-> "ok", ext |-> c.ext, data |-> mem_cache[k].voice]
                 /\ (mem_cache[k].pending # 0 /\ ~Done(tasks[mem_cache[k].pending])) =>
                      c.pc = "wait_pending" /\ c.task = mem_cache[k].pending
            /\ (k \notin DOMAIN mem_cache /\ k \in DOMAIN file_cache) =>
                 c.path = "load" /\ c.pc = "loading" /\ c.file = file_cache[k]
            /\ (k \notin DOMAIN mem_cache /\ k \notin DOMAIN file_cache) =>
                 /\ c.res.kind = "not_in_cache"
                 /\ mem_cache' = mem_cache /\ file_cache' = file_cache]_vars

\* a read of a key in neither cache has failed, and no task was ever created
C13_Witness ==
    /\ tasks = <<>>
    /\ \E i \in 1..Len(calls) : calls[i].op = "read" /\ calls[i].res.kind = "not_in_cache"

\* the filename a call of async_read_tts was given
Requested(c) == <<c.key, c.ext>>

\* C14: a filename that is in neither grammar is not in the disk index, is
\* not deleted by async_clear_cache, and is rejected by async_read_tts with
\* the wrong-file-format error, with both caches unchanged
C14_IllFormedNamesAreLeftAlone ==
    /\ [](\A k \in DOMAIN file_cache : WellFormed(file_cache[k]))
    /\ [][\A f \in (DOMAIN disk) \ (DOMAIN disk') : WellFormed(f)]_vars
    /\ [][(ReadStep /\ ~WellFormed(Requested(calls'[Len(calls')]))) =>
            /\ calls'[Len(calls')].res.kind = "wrong_format"
            /\ mem_cache' = mem_cache /\ file_cache' = file_cache]_vars

\* the language a request resolves to is not one the engine supports
BadLanguage(req) ==
    LET language == IF req.language.some /\ req.language.v # <<>> THEN req.language
                    ELSE Engine.default_language
    IN ~language.some \/ \A i \in 1..Len(Engine.supported_languages.v) :
                             Engine.supported_languages.v[i] # language.v

\* an option of the request (Engine has no default options to merge) has a
\* name the engine does not support
BadOptions(req) ==
    /\ req.options.some
    /\ \E i \in 1..Len(req.options.v) :
          \A j \in 1..Len(Engine.supported_options.v) :
              Engine.supported_options.v[j] # req.options.v[i][1]

\* C15: a call of async_get_tts_audio or async_get_url_path with an unsupported
\* language or an unsupported option name ends with the error at once: no task
\* is created and the memory cache and the disk index are unchanged
C15_InvalidRequestIsRejectedFirst ==
    [][\A k \in Keys, variant \in Variants, cache \in BOOLEAN :
          LET req == RequestOf(k, hasExt[k], variant) IN
          ((BadLanguage(req) \/ BadOptions(req))
             /\ (async_get_tts_audio(k, variant, cache)
                   \/ async_get_url_path(k, variant, cache))) =>
            /\ calls'[Len(calls')].res.kind =
                 (IF BadLanguage(req) THEN "language" ELSE "options")
            /\ tasks' = tasks
            /\ mem_cache' = mem_cache
            /\ file_cache' = file_cache]_vars

\* a request with an unsupported language and one with an unsupported option
\* were rejected
C15_Witness ==
    /\ Len(calls) = 2
    /\ calls[1].res.kind = "language"
    /\ calls[2].res.kind = "options"

\* a dict, or None, as the mapping from its names to their values
MapOf(d) ==
    IF d.some
    THEN [n \in {d.v[i][1] : i \in 1..Len(d.v)} |-> GetItem(d.v, n)]
    ELSE EmptyMap

\* C16: for a supported language, process_options gives the language of the
\* request, or the engine's default language when the request has none, and the
\* default options overridden name by name by the request's options; when a
\* name of these is not a supported option it raises the error, which names
\* exactly the names that are not supported
C16_OptionsAreMergedAndChecked ==
    (pure.fn = "process_options" /\ pure.done) =>
        LET a == pure.arg
            language == IF a.language.some /\ a.language.v # <<>> THEN a.language
                        ELSE a.engine.default_language
            languages == IF a.engine.supported_languages.some
                         THEN {a.engine.supported_languages.v[i] :
                                 i \in 1..Len(a.engine.supported_languages.v)}
                         ELSE {}
            defaults == MapOf(a.engine.default_options)
            request == MapOf(a.options)
            merged == [n \in DOMAIN defaults \cup DOMAIN request |->
                         IF n \in DOMAIN request THEN request[n] ELSE defaults[n]]
            supported == IF a.engine.supported_options.some
                         THEN {a.engine.supported_options.v[i] :
                                 i \in 1..Len(a.engine.supported_options.v)}
                         ELSE {}
            offending == {n \in DOMAIN merged : n \notin supported}
        IN (language.some /\ language.v \in languages) =>
             IF offending # {}
             THEN /\ pure.out.error = "options"
                  /\ {pure.out.invalid[i] : i \in 1..Len(pure.out.invalid)} = offending
             ELSE /\ pure.out.error = "none"
                  /\ pure.out.language = language.v
                  /\ MapOf(pure.out.options) = merged

\* process_options has merged a default and a request that both set "v", with
\* a default for "vx" only, for a request without language
C16_Witness ==
    /\ pure.fn = "process_options" /\ pure.done
    /\ pure.out.error = "none"
    /\ ~pure.arg.language.some
    /\ pure.arg.engine.default_options =
         Some(<< <<<<"v">>, <<"a">>>>, <<<<"v", "x">>, <<"a">>>> >>)
    /\ pure.arg.options = Some(<< <<<<"v">>, <<"x", "a">>>> >>)
    /\ pure.out.options = Some(<< <<<<"v">>, <<"x", "a">>>>, <<<<"v", "x">>, <<"a">>>> >>)

\* C17: the key of a request with options differs from the key of the same
\* message, language and engine with any other non-empty options mapping
C17_KeyIsInjectiveInOptions ==
    (pure.fn = "_generate_cache_key" /\ pure.done /\ Truthy(pure.arg.options)) =>
        \A d \in OptionDicts \ {<<>>} :
            MapOf(Some(d)) # MapOf(pure.arg.options) =>
                _generate_cache_key(pure.arg.message, pure.arg.language, Some(d),
                                    pure.arg.engine) # pure.out

\* language with "_" replaced by "-", in lowercase
Normalized(language) == lower(replace_underscore(language))

\* C18: the key is in lowercase and is the message digest, the normalized
\* language, the options part and the engine, joined by "_"; the options part
\* is "-" for no options or an empty dict, a digest otherwise; and any request
\* with the same message, normalized language, options mapping (whatever the
\* order of its items) and engine has the same key
C18_KeyIsAFunctionOfTheFields ==
    (pure.fn = "_generate_cache_key" /\ pure.done) =>
        LET a == pure.arg
            head == hexdigest(a.message, Messages, Sha1Digits) \o <<"_">>
                      \o Normalized(a.language) \o <<"_">>
            tail == <<"_">> \o lower(a.engine)
            part == SubSeq(pure.out, Len(head) + 1, Len(pure.out) - Len(tail))
        IN /\ pure.out = lower(pure.out)
           /\ pure.out = head \o part \o tail
           /\ IF MapOf(a.options) = EmptyMap THEN part = <<"-">>
              ELSE Len(part) = Blake2sDigits /\ \A i \in 1..Len(part) : part[i] \in HexChars
           /\ \A b \in KeyArgs :
                (/\ b.message = a.message
                 /\ Normalized(b.language) = Normalized(a.language)
                 /\ MapOf(b.options) = MapOf(a.options)
                 /\ b.engine = a.engine) =>
                   _generate_cache_key(b.message, b.language, b.options, b.engine)
                     = pure.out

\* the key of a request with language en_US and two options that are not
\* listed in sorted order
C18_Witness ==
    /\ pure.fn = "_generate_cache_key" /\ pure.done
    /\ pure.arg.language = <<"e", "n", "_", "U", "S">>
    /\ pure.arg.options = Some(<< <<<<"v">>, <<"a">>>>, <<ATTR_AUDIO_OUTPUT, mp3>> >>)

\* a filename is matched by a pattern, and both async_read_tts and
\* _get_cache_files parse it to key
RoundTrip(name, key) ==
    /\ voice_file_match(lower(name)).ok /\ voice_file_match(lower(name)).key = key
    /\ voice_file_match(name).ok /\ voice_file_match(name).key = key

\* C19: the placeholder's filename and the filename get_tts_data stores (and
\* saves the file under) are matched by a pattern of the grammar and parse to
\* the key they were made of
C19_KeysRoundTrip ==
    (pure.fn = "filename" /\ pure.done) =>
        /\ pure.out.placeholder.some => RoundTrip(pure.out.placeholder.v, pure.out.key)
        /\ pure.out.stored.some => RoundTrip(pure.out.stored.v, pure.out.key)

\* C20: when load_speech could not read the file, _async_file_to_mem ends with
\* the cache-read error, the key is not in the disk index afterwards, and the
\* memory cache is as it was
C20_UnreadableFileHealsTheIndex ==
    [][\A i \in 1..Len(calls) :
          (calls[i].rdata = "OSError" /\ LoadResume(i)) =>
            /\ calls'[i].load = "read_error"
            /\ calls[i].key \notin DOMAIN file_cache'
            /\ mem_cache' = mem_cache]_vars

\* the step is the failure of save_speech for task t, or what follows it
WriteFails(t) ==
    \/ tasks[t].save = "pending" /\ tasks'[t].save = "failed"
    \/ tasks[t].save = "failed" /\ tasks'[t].save = "logged"

LoadEnds(i) == calls[i].pc = "loaded" /\ calls'[i].pc # "loaded"

\* the step is a step of the save that task t started (lines 694-698)
SaveStep(t) == tasks'[t].save # tasks[t].save /\ tasks[t].save # "none"

\* C22: a request with use_cache=false takes nothing from the disk index (it
\* starts no load, and when the key is not in memory it invokes the backend
\* whether or not the key is indexed), changes neither the index nor the
\* directory, and the synthesis it starts is not saved; the index and the
\* directory are changed only by the save of a synthesis requested with
\* use_cache=true, by the load of a request with use_cache=true or of a read by
\* filename, and by clear_cache.
C22_UncachedRequestLeavesDiskAlone ==
    /\ [](\A i \in 1..Len(calls) :
            (calls[i].op \in {"audio", "url"} /\ ~calls[i].cache) =>
                /\ calls[i].path # "load"
                /\ calls[i].load = "none"
                /\ calls[i].file = NoFile)
    /\ [](\A t \in 1..Len(tasks) : tasks[t].save # "none" => tasks[t].cache)
    /\ [][\A k \in Keys :
            (RequestStep(k) /\ ~calls'[Len(calls')].cache) =>
                /\ file_cache' = file_cache
                /\ disk' = disk
                /\ k \notin DOMAIN mem_cache =>
                     /\ Len(tasks') = Len(tasks) + 1
                     /\ tasks'[Len(tasks')].key = k
                     /\ ~tasks'[Len(tasks')].cache
                /\ k \in DOMAIN mem_cache => tasks' = tasks]_vars
    /\ [][(file_cache' # file_cache \/ disk' # disk) =>
            \/ clear' # clear
            \/ \E t \in 1..Len(tasks) : SaveStep(t) /\ tasks[t].cache
            \/ \E i \in 1..Len(calls) :
                   LoadEnds(i) /\ (calls[i].cache \/ calls[i].op = "read")]_vars

\* C22 witness: the key's mp3 file is indexed; a request with use_cache=false was
\* served a new synthesis in wav, which was not saved, and the index and the
\* directory are as they were.
C22_Witness ==
    /\ Len(tasks) = 1
    /\ Len(calls) = 1
    /\ NoClearYet
    /\ ~tasks[1].cache
    /\ tasks[1].state = "handled"
    /\ tasks[1].save = "none"
    /\ ~calls[1].cache
    /\ calls[1].op = "audio"
    /\ calls[1].path = "synth"
    /\ calls[1].res = [kind |-> "ok", ext |-> "wav", data |-> "b"]
    /\ file_cache = Put(EmptyMap, calls[1].key, Filename(calls[1].key, "mp3"))
    /\ disk = Put(EmptyMap, Filename(calls[1].key, "mp3"), "a+id3")

\* C23 as stated, second half: while a synthesis without expected extension
\* has not completed, no entry for its key is in memory.
C23_NoEntryBeforeSynthesisCompletes ==
    \A t \in 1..Len(tasks) :
        (tasks[t].state = "running" /\ ~tasks[t].placeholder) =>
            tasks[t].key \notin DOMAIN mem_cache

\* C23 (amended): a request that misses the cache with an expected extension
\* installs the placeholder (filename key.expected_extension, no audio, pending
\* the new task) and has its filename while the task is still running: the URL
\* call returns it, the audio call goes on to await the task. Without an
\* expected extension the request installs nothing and is suspended on the
\* task; it returns only after the task has completed, and until then memory
\* holds no entry made by this synthesis (an entry of the key that is there
\* comes from another synthesis or from a load of the key's file).
C23_PlaceholderOnlyWithExpectedExtension ==
    /\ [][\A k \in Keys :
            (RequestStep(k) /\ Len(tasks') = Len(tasks) + 1) =>
                LET t == Len(tasks')
                    c == calls'[Len(calls')] IN
                /\ tasks'[t].state = "running"
                /\ tasks'[t].placeholder = hasExt[k]
                /\ IF hasExt[k]
                   THEN /\ mem_cache' =
                             Put(mem_cache, k, Placeholder(Filename(k, ExpectedExt), t))
                        /\ c.op = "url" =>
                             /\ c.pc = "done"
                             /\ c.res = [kind |-> "ok", ext |-> ExpectedExt, data |-> "-"]
                        /\ c.op = "audio" =>
                             /\ c.pc = "wait_pending"
                             /\ c.task = t
                             /\ c.ext = ExpectedExt
                   ELSE /\ mem_cache' = mem_cache
                        /\ c.pc = "wait_task"
                        /\ c.task = t]_vars
    /\ [](\A i \in 1..Len(calls) :
            (calls[i].path = "synth" /\ ~hasExt[calls[i].key] /\ calls[i].pc = "done") =>
                Done(tasks[calls[i].task]))
    /\ [](\A t \in 1..Len(tasks) :
            (tasks[t].state = "running" /\ tasks[t].key \in DOMAIN mem_cache) =>
                /\ mem_cache[tasks[t].key].id # <<"task", t>>
                /\ ~tasks[t].placeholder => mem_cache[tasks[t].key].pending # t)

\* C23 witness: the URL call has returned the placeholder's filename and the
\* placeholder is in memory while the synthesis is still running.
C23_Witness ==
    /\ Len(tasks) = 1
    /\ Len(calls) = 1
    /\ tasks[1].state = "running"
    /\ tasks[1].placeholder
    /\ calls[1].op = "url"
    /\ calls[1].pc = "done"
    /\ calls[1].res = [kind |-> "ok", ext |-> ExpectedExt, data |-> "-"]
    /\ tasks[1].key \in DOMAIN mem_cache
    /\ mem_cache[tasks[1].key] =
          Placeholder(Filename(tasks[1].key, ExpectedExt), 1)

\* ------------------------------------------------------------- the loop runs
\* the event loop runs the callbacks of a finished task, and fires a timer
\* handle that is due
\* (WF of DoneCallbacks and TimerFire), for an engine that returns one result
InitLive ==
    Start({Returned("mp3", "a")},
          {{Filename(k, "mp3") : k \in found} : found \in SUBSET Keys})

SpecLive ==
    /\ InitLive
    /\ [][Next]_vars
    /\ \A t \in 1..MaxTasks : WF_vars(DoneCallbacks(t))
    /\ \A tm \in TimerHandles : WF_vars(TimerFire(tm))

\* the entry that the store named tm.id installed is in memory
Installed(tm) ==
    /\ tm.key \in DOMAIN mem_cache
    /\ mem_cache[tm.key].pending = 0
    /\ mem_cache[tm.key].id = tm.id

\* C24: while a resolved entry is in memory the timer scheduled at its
\* installation is scheduled still; a timer that fires leaves its key out of
\* memory; so every resolved entry is eventually out of memory, no later than
\* the firing of its own timer, time_memory after its installation.
C24_ResolvedEntriesAreEvicted ==
    /\ [](\A tm \in TimerHandles : Installed(tm) => tm \in timers)
    /\ [][\A tm \in timers :
            tm \notin timers' => tm.key \notin DOMAIN mem_cache']_vars
    /\ \A tm \in TimerHandles : Installed(tm) ~> ~Installed(tm)

\* C24 witness: a synthesis was stored in memory, its timer has fired, and the
\* key is no longer in memory; nothing else removed it.
C24_Witness ==
    /\ Len(tasks) = 1
    /\ NoClearYet
    /\ tasks[1].outcome = "ok"
    /\ tasks[1].state = "handled"
    /\ timers = {}
    /\ mem_cache = EmptyMap

\* the state of key k in the memory cache m
EntryState(k, m) ==
    IF k \notin DOMAIN m THEN "Absent"
    ELSE IF m[k].pending # 0 THEN "Pending" ELSE "Resolved"

\* the changes of state the claim lists
Transitions ==
    {<<"Absent", "Pending">>, <<"Pending", "Resolved">>, <<"Absent", "Resolved">>,
     <<"Pending", "Absent">>, <<"Resolved", "Absent">>}

\* C25: the state of a key in memory changes only Absent -> Pending,
\* Pending -> Resolved, Absent -> Resolved, Pending -> Absent when the failure
\* of the placeholder's synthesis is handled, and Resolved -> Absent when a
\* timer fires or clear_cache runs; a placeholder in memory is not replaced by
\* another placeholder; and every entry is a placeholder (pending set, no
\* audio) or resolved (pending unset).
C25_MemoryEntryStateMachine ==
    /\ [](\A k \in DOMAIN mem_cache :
            mem_cache[k].pending # 0 => mem_cache[k].voice = "")
    /\ [][\A k \in Keys :
            LET was == EntryState(k, mem_cache)
                is == EntryState(k, mem_cache') IN
            /\ was # is => <<was, is>> \in Transitions
            /\ (was = "Pending" /\ is = "Pending") => mem_cache'[k] = mem_cache[k]
            /\ (was = "Pending" /\ is = "Absent") =>
                   /\ FailureHandled(mem_cache[k].pending)
                   /\ tasks[mem_cache[k].pending].placeholder
            /\ (was = "Resolved" /\ is = "Absent") =>
                   \/ \E tm \in timers : tm.key = k /\ tm \notin timers'
                   \/ clear.pc = "idle" /\ clear'.pc = "removing"]_vars

\* C26: when the failure of a synthesis is handled and the entry of its key in
\* memory is not the placeholder that synthesis installed, the entry stays.
C26_FailureRemovesOnlyItsOwnPlaceholder ==
    [][\A t \in 1..Len(tasks) :
         ( /\ FailureHandled(t)
           /\ tasks[t].key \in DOMAIN mem_cache
           /\ mem_cache[tasks[t].key].pending # t )
         => mem_cache' = mem_cache]_vars

\* C27: no call of async_get_tts_audio or async_read_tts ends with the
\* KeyError of a lookup of its key in the memory cache.
C27_NoLookupFailureAfterAwait ==
    \A i \in 1..Len(calls) :
        (calls[i].op \in {"audio", "read"} /\ calls[i].pc = "done") =>
            calls[i].res.kind # "KeyError"

\* the step is the return of call i
Returns(i) ==
    /\ i > Len(calls) \/ calls[i].pc # "done"
    /\ calls'[i].pc = "done"

\* C28: when async_get_tts_audio returns (extension, bytes), the key is in
\* memory and the extension is that of the filename of its entry.
C28_ReturnedExtensionIsTheCachedOne ==
    [][\A i \in 1..Len(calls') :
         ( /\ Returns(i)
           /\ calls'[i].op = "audio"
           /\ calls'[i].res.kind = "ok" )
         => /\ calls'[i].key \in DOMAIN mem_cache'
            /\ calls'[i].res.ext = ExtOf(mem_cache'[calls'[i].key].filename)]_vars
====
